---------------------------- MODULE Spec2Model ----------------------------
(***************************************************************************)
(* Model of the Transcribe repository: the Transcript Writer               *)
(* (src/transcribe.py) and the Transcript Formatter (src/txt_to_docx.py).  *)
(*                                                                         *)
(* Text is modelled character by character: a Python str is the sequence   *)
(* of its code points (natural numbers), a file is the sequence of the     *)
(* characters written to it, and the header regular expression is matched  *)
(* on the characters.  Str("...") is the notation for a str given by its   *)
(* ASCII characters.                                                       *)
(***************************************************************************)
EXTENDS Integers, Sequences, FiniteSets, TLC

(***************************************************************************)
(* Bounds of the model.                                                    *)
(***************************************************************************)
\* Longest transcript file (in lines) the Formatter is started on by hand.
MaxLines == 4
\* Largest number of utterances in one provider result.
MaxUtt == 3
\* Largest number of distinct speakers in the many-speaker input files.
MaxSpk == 7

(***************************************************************************)
(* Characters and strings.                                                 *)
(***************************************************************************)
\* Python's None for a str-valued variable; Some(x) is a value that is set.
None == <<>>
Some(x) == <<x>>

\* The ASCII characters from the space to the underscore (code points 32 to
\* 95) and from "a" to "~" (97 to 126).
AsciiLow ==
    " !\"#$%&'()*+,-./0123456789:;<=>?@ABCDEFGHIJKLMNOPQRSTUVWXYZ[\\]^_"
AsciiHigh == "abcdefghijklmnopqrstuvwxyz{|}~"

\* ord(c) of the characters that are written as literals.
OrdTable ==
    [c \in {"\t", "\n", "\r"}
              \cup {SubSeq(AsciiLow, k, k) : k \in 1..Len(AsciiLow)}
              \cup {SubSeq(AsciiHigh, k, k) : k \in 1..Len(AsciiHigh)} |->
        CASE c = "\t" -> 9
          [] c = "\n" -> 10
          [] c = "\r" -> 13
          [] \E k \in 1..Len(AsciiLow) : SubSeq(AsciiLow, k, k) = c ->
                 31 + CHOOSE k \in 1..Len(AsciiLow) : SubSeq(AsciiLow, k, k) = c
          [] OTHER ->
                 96 + CHOOSE k \in 1..Len(AsciiHigh) :
                          SubSeq(AsciiHigh, k, k) = c]

Ord(c) == OrdTable[c]

\* The str with the characters of the literal s.
Str(s) == [k \in 1..Len(s) |-> Ord(SubSeq(s, k, k))]

\* The characters str.strip() removes and the regular expression's \s
\* (str.isspace): tab to carriage return, the four separators FS to US, the
\* space, NEL, the no-break space, and the Unicode spaces and line and
\* paragraph separators.
Whitespace ==
    (9..13) \cup (28..32) \cup {133, 160, 5760} \cup (8192..8202)
        \cup {8232, 8233, 8239, 8287, 12288}

\* The digit zero of every Unicode decimal digit block (category Nd); the
\* digits one to nine follow it.
DigitZeros ==
    {48, 1632, 1776, 1984, 2406, 2534, 2662, 2790, 2918, 3046, 3174, 3302,
     3430, 3558, 3664, 3792, 3872, 4160, 4240, 6112, 6160, 6470, 6608, 6784,
     6800, 6992, 7088, 7232, 7248, 42528, 43216, 43264, 43472, 43504, 43600,
     44016, 65296, 66720, 68912, 69734, 69872, 69942, 70096, 70384, 70736,
     70864, 71248, 71360, 71472, 71904, 72016, 72784, 73040, 73120, 92768,
     92864, 93008, 120782, 120792, 120802, 120812, 120822, 123200, 123632,
     125264, 130032}

\* The regular expression's \d: for a str pattern every Unicode decimal
\* digit.
DigitChars == UNION {z..(z + 9) : z \in DigitZeros}

\* The ranges of code points of the regular expression's \w: for a str
\* pattern every alphanumeric character (str.isalnum) and the underscore.
WordRanges ==
    {<<48, 57>>, <<65, 90>>, <<95, 95>>, <<97, 122>>, <<170, 170>>,
     <<178, 179>>, <<181, 181>>, <<185, 186>>, <<188, 190>>, <<192, 214>>,
     <<216, 246>>, <<248, 705>>, <<710, 721>>, <<736, 740>>, <<748, 748>>,
     <<750, 750>>, <<880, 884>>, <<886, 887>>, <<890, 893>>, <<895, 895>>,
     <<902, 902>>, <<904, 906>>, <<908, 908>>, <<910, 929>>, <<931, 1013>>,
     <<1015, 1153>>, <<1162, 1327>>, <<1329, 1366>>, <<1369, 1369>>,
     <<1376, 1416>>, <<1488, 1514>>, <<1519, 1522>>, <<1568, 1610>>,
     <<1632, 1641>>, <<1646, 1647>>, <<1649, 1747>>, <<1749, 1749>>,
     <<1765, 1766>>, <<1774, 1788>>, <<1791, 1791>>, <<1808, 1808>>,
     <<1810, 1839>>, <<1869, 1957>>, <<1969, 1969>>, <<1984, 2026>>,
     <<2036, 2037>>, <<2042, 2042>>, <<2048, 2069>>, <<2074, 2074>>,
     <<2084, 2084>>, <<2088, 2088>>, <<2112, 2136>>, <<2144, 2154>>,
     <<2160, 2183>>, <<2185, 2190>>, <<2208, 2249>>, <<2308, 2361>>,
     <<2365, 2365>>, <<2384, 2384>>, <<2392, 2401>>, <<2406, 2415>>,
     <<2417, 2432>>, <<2437, 2444>>, <<2447, 2448>>, <<2451, 2472>>,
     <<2474, 2480>>, <<2482, 2482>>, <<2486, 2489>>, <<2493, 2493>>,
     <<2510, 2510>>, <<2524, 2525>>, <<2527, 2529>>, <<2534, 2545>>,
     <<2548, 2553>>, <<2556, 2556>>, <<2565, 2570>>, <<2575, 2576>>,
     <<2579, 2600>>, <<2602, 2608>>, <<2610, 2611>>, <<2613, 2614>>,
     <<2616, 2617>>, <<2649, 2652>>, <<2654, 2654>>, <<2662, 2671>>,
     <<2674, 2676>>, <<2693, 2701>>, <<2703, 2705>>, <<2707, 2728>>,
     <<2730, 2736>>, <<2738, 2739>>, <<2741, 2745>>, <<2749, 2749>>,
     <<2768, 2768>>, <<2784, 2785>>, <<2790, 2799>>, <<2809, 2809>>,
     <<2821, 2828>>, <<2831, 2832>>, <<2835, 2856>>, <<2858, 2864>>,
     <<2866, 2867>>, <<2869, 2873>>, <<2877, 2877>>, <<2908, 2909>>,
     <<2911, 2913>>, <<2918, 2927>>, <<2929, 2935>>, <<2947, 2947>>,
     <<2949, 2954>>, <<2958, 2960>>, <<2962, 2965>>, <<2969, 2970>>,
     <<2972, 2972>>, <<2974, 2975>>, <<2979, 2980>>, <<2984, 2986>>,
     <<2990, 3001>>, <<3024, 3024>>, <<3046, 3058>>, <<3077, 3084>>,
     <<3086, 3088>>, <<3090, 3112>>, <<3114, 3129>>, <<3133, 3133>>,
     <<3160, 3162>>, <<3165, 3165>>, <<3168, 3169>>, <<3174, 3183>>,
     <<3192, 3198>>, <<3200, 3200>>, <<3205, 3212>>, <<3214, 3216>>,
     <<3218, 3240>>, <<3242, 3251>>, <<3253, 3257>>, <<3261, 3261>>,
     <<3293, 3294>>, <<3296, 3297>>, <<3302, 3311>>, <<3313, 3314>>,
     <<3332, 3340>>, <<3342, 3344>>, <<3346, 3386>>, <<3389, 3389>>,
     <<3406, 3406>>, <<3412, 3414>>, <<3416, 3425>>, <<3430, 3448>>,
     <<3450, 3455>>, <<3461, 3478>>, <<3482, 3505>>, <<3507, 3515>>,
     <<3517, 3517>>, <<3520, 3526>>, <<3558, 3567>>, <<3585, 3632>>,
     <<3634, 3635>>, <<3648, 3654>>, <<3664, 3673>>, <<3713, 3714>>,
     <<3716, 3716>>, <<3718, 3722>>, <<3724, 3747>>, <<3749, 3749>>,
     <<3751, 3760>>, <<3762, 3763>>, <<3773, 3773>>, <<3776, 3780>>,
     <<3782, 3782>>, <<3792, 3801>>, <<3804, 3807>>, <<3840, 3840>>,
     <<3872, 3891>>, <<3904, 3911>>, <<3913, 3948>>, <<3976, 3980>>,
     <<4096, 4138>>, <<4159, 4169>>, <<4176, 4181>>, <<4186, 4189>>,
     <<4193, 4193>>, <<4197, 4198>>, <<4206, 4208>>, <<4213, 4225>>,
     <<4238, 4238>>, <<4240, 4249>>, <<4256, 4293>>, <<4295, 4295>>,
     <<4301, 4301>>, <<4304, 4346>>, <<4348, 4680>>, <<4682, 4685>>,
     <<4688, 4694>>, <<4696, 4696>>, <<4698, 4701>>, <<4704, 4744>>,
     <<4746, 4749>>, <<4752, 4784>>, <<4786, 4789>>, <<4792, 4798>>,
     <<4800, 4800>>, <<4802, 4805>>, <<4808, 4822>>, <<4824, 4880>>,
     <<4882, 4885>>, <<4888, 4954>>, <<4969, 4988>>, <<4992, 5007>>,
     <<5024, 5109>>, <<5112, 5117>>, <<5121, 5740>>, <<5743, 5759>>,
     <<5761, 5786>>, <<5792, 5866>>, <<5870, 5880>>, <<5888, 5905>>,
     <<5919, 5937>>, <<5952, 5969>>, <<5984, 5996>>, <<5998, 6000>>,
     <<6016, 6067>>, <<6103, 6103>>, <<6108, 6108>>, <<6112, 6121>>,
     <<6128, 6137>>, <<6160, 6169>>, <<6176, 6264>>, <<6272, 6276>>,
     <<6279, 6312>>, <<6314, 6314>>, <<6320, 6389>>, <<6400, 6430>>,
     <<6470, 6509>>, <<6512, 6516>>, <<6528, 6571>>, <<6576, 6601>>,
     <<6608, 6618>>, <<6656, 6678>>, <<6688, 6740>>, <<6784, 6793>>,
     <<6800, 6809>>, <<6823, 6823>>, <<6917, 6963>>, <<6981, 6988>>,
     <<6992, 7001>>, <<7043, 7072>>, <<7086, 7141>>, <<7168, 7203>>,
     <<7232, 7241>>, <<7245, 7293>>, <<7296, 7304>>, <<7312, 7354>>,
     <<7357, 7359>>, <<7401, 7404>>, <<7406, 7411>>, <<7413, 7414>>,
     <<7418, 7418>>, <<7424, 7615>>, <<7680, 7957>>, <<7960, 7965>>,
     <<7968, 8005>>, <<8008, 8013>>, <<8016, 8023>>, <<8025, 8025>>,
     <<8027, 8027>>, <<8029, 8029>>, <<8031, 8061>>, <<8064, 8116>>,
     <<8118, 8124>>, <<8126, 8126>>, <<8130, 8132>>, <<8134, 8140>>,
     <<8144, 8147>>, <<8150, 8155>>, <<8160, 8172>>, <<8178, 8180>>,
     <<8182, 8188>>, <<8304, 8305>>, <<8308, 8313>>, <<8319, 8329>>,
     <<8336, 8348>>, <<8450, 8450>>, <<8455, 8455>>, <<8458, 8467>>,
     <<8469, 8469>>, <<8473, 8477>>, <<8484, 8484>>, <<8486, 8486>>,
     <<8488, 8488>>, <<8490, 8493>>, <<8495, 8505>>, <<8508, 8511>>,
     <<8517, 8521>>, <<8526, 8526>>, <<8528, 8585>>, <<9312, 9371>>,
     <<9450, 9471>>, <<10102, 10131>>, <<11264, 11492>>, <<11499, 11502>>,
     <<11506, 11507>>, <<11517, 11517>>, <<11520, 11557>>, <<11559, 11559>>,
     <<11565, 11565>>, <<11568, 11623>>, <<11631, 11631>>, <<11648, 11670>>,
     <<11680, 11686>>, <<11688, 11694>>, <<11696, 11702>>, <<11704, 11710>>,
     <<11712, 11718>>, <<11720, 11726>>, <<11728, 11734>>, <<11736, 11742>>,
     <<11823, 11823>>, <<12293, 12295>>, <<12321, 12329>>, <<12337, 12341>>,
     <<12344, 12348>>, <<12353, 12438>>, <<12445, 12447>>, <<12449, 12538>>,
     <<12540, 12543>>, <<12549, 12591>>, <<12593, 12686>>, <<12690, 12693>>,
     <<12704, 12735>>, <<12784, 12799>>, <<12832, 12841>>, <<12872, 12879>>,
     <<12881, 12895>>, <<12928, 12937>>, <<12977, 12991>>, <<13312, 19903>>,
     <<19968, 42124>>, <<42192, 42237>>, <<42240, 42508>>, <<42512, 42539>>,
     <<42560, 42606>>, <<42623, 42653>>, <<42656, 42735>>, <<42775, 42783>>,
     <<42786, 42888>>, <<42891, 42954>>, <<42960, 42961>>, <<42963, 42963>>,
     <<42965, 42969>>, <<42994, 43009>>, <<43011, 43013>>, <<43015, 43018>>,
     <<43020, 43042>>, <<43056, 43061>>, <<43072, 43123>>, <<43138, 43187>>,
     <<43216, 43225>>, <<43250, 43255>>, <<43259, 43259>>, <<43261, 43262>>,
     <<43264, 43301>>, <<43312, 43334>>, <<43360, 43388>>, <<43396, 43442>>,
     <<43471, 43481>>, <<43488, 43492>>, <<43494, 43518>>, <<43520, 43560>>,
     <<43584, 43586>>, <<43588, 43595>>, <<43600, 43609>>, <<43616, 43638>>,
     <<43642, 43642>>, <<43646, 43695>>, <<43697, 43697>>, <<43701, 43702>>,
     <<43705, 43709>>, <<43712, 43712>>, <<43714, 43714>>, <<43739, 43741>>,
     <<43744, 43754>>, <<43762, 43764>>, <<43777, 43782>>, <<43785, 43790>>,
     <<43793, 43798>>, <<43808, 43814>>, <<43816, 43822>>, <<43824, 43866>>,
     <<43868, 43881>>, <<43888, 44002>>, <<44016, 44025>>, <<44032, 55203>>,
     <<55216, 55238>>, <<55243, 55291>>, <<63744, 64109>>, <<64112, 64217>>,
     <<64256, 64262>>, <<64275, 64279>>, <<64285, 64285>>, <<64287, 64296>>,
     <<64298, 64310>>, <<64312, 64316>>, <<64318, 64318>>, <<64320, 64321>>,
     <<64323, 64324>>, <<64326, 64433>>, <<64467, 64829>>, <<64848, 64911>>,
     <<64914, 64967>>, <<65008, 65019>>, <<65136, 65140>>, <<65142, 65276>>,
     <<65296, 65305>>, <<65313, 65338>>, <<65345, 65370>>, <<65382, 65470>>,
     <<65474, 65479>>, <<65482, 65487>>, <<65490, 65495>>, <<65498, 65500>>,
     <<65536, 65547>>, <<65549, 65574>>, <<65576, 65594>>, <<65596, 65597>>,
     <<65599, 65613>>, <<65616, 65629>>, <<65664, 65786>>, <<65799, 65843>>,
     <<65856, 65912>>, <<65930, 65931>>, <<66176, 66204>>, <<66208, 66256>>,
     <<66273, 66299>>, <<66304, 66339>>, <<66349, 66378>>, <<66384, 66421>>,
     <<66432, 66461>>, <<66464, 66499>>, <<66504, 66511>>, <<66513, 66517>>,
     <<66560, 66717>>, <<66720, 66729>>, <<66736, 66771>>, <<66776, 66811>>,
     <<66816, 66855>>, <<66864, 66915>>, <<66928, 66938>>, <<66940, 66954>>,
     <<66956, 66962>>, <<66964, 66965>>, <<66967, 66977>>, <<66979, 66993>>,
     <<66995, 67001>>, <<67003, 67004>>, <<67072, 67382>>, <<67392, 67413>>,
     <<67424, 67431>>, <<67456, 67461>>, <<67463, 67504>>, <<67506, 67514>>,
     <<67584, 67589>>, <<67592, 67592>>, <<67594, 67637>>, <<67639, 67640>>,
     <<67644, 67644>>, <<67647, 67669>>, <<67672, 67702>>, <<67705, 67742>>,
     <<67751, 67759>>, <<67808, 67826>>, <<67828, 67829>>, <<67835, 67867>>,
     <<67872, 67897>>, <<67968, 68023>>, <<68028, 68047>>, <<68050, 68096>>,
     <<68112, 68115>>, <<68117, 68119>>, <<68121, 68149>>, <<68160, 68168>>,
     <<68192, 68222>>, <<68224, 68255>>, <<68288, 68295>>, <<68297, 68324>>,
     <<68331, 68335>>, <<68352, 68405>>, <<68416, 68437>>, <<68440, 68466>>,
     <<68472, 68497>>, <<68521, 68527>>, <<68608, 68680>>, <<68736, 68786>>,
     <<68800, 68850>>, <<68858, 68899>>, <<68912, 68921>>, <<69216, 69246>>,
     <<69248, 69289>>, <<69296, 69297>>, <<69376, 69415>>, <<69424, 69445>>,
     <<69457, 69460>>, <<69488, 69505>>, <<69552, 69579>>, <<69600, 69622>>,
     <<69635, 69687>>, <<69714, 69743>>, <<69745, 69746>>, <<69749, 69749>>,
     <<69763, 69807>>, <<69840, 69864>>, <<69872, 69881>>, <<69891, 69926>>,
     <<69942, 69951>>, <<69956, 69956>>, <<69959, 69959>>, <<69968, 70002>>,
     <<70006, 70006>>, <<70019, 70066>>, <<70081, 70084>>, <<70096, 70106>>,
     <<70108, 70108>>, <<70113, 70132>>, <<70144, 70161>>, <<70163, 70187>>,
     <<70272, 70278>>, <<70280, 70280>>, <<70282, 70285>>, <<70287, 70301>>,
     <<70303, 70312>>, <<70320, 70366>>, <<70384, 70393>>, <<70405, 70412>>,
     <<70415, 70416>>, <<70419, 70440>>, <<70442, 70448>>, <<70450, 70451>>,
     <<70453, 70457>>, <<70461, 70461>>, <<70480, 70480>>, <<70493, 70497>>,
     <<70656, 70708>>, <<70727, 70730>>, <<70736, 70745>>, <<70751, 70753>>,
     <<70784, 70831>>, <<70852, 70853>>, <<70855, 70855>>, <<70864, 70873>>,
     <<71040, 71086>>, <<71128, 71131>>, <<71168, 71215>>, <<71236, 71236>>,
     <<71248, 71257>>, <<71296, 71338>>, <<71352, 71352>>, <<71360, 71369>>,
     <<71424, 71450>>, <<71472, 71483>>, <<71488, 71494>>, <<71680, 71723>>,
     <<71840, 71922>>, <<71935, 71942>>, <<71945, 71945>>, <<71948, 71955>>,
     <<71957, 71958>>, <<71960, 71983>>, <<71999, 71999>>, <<72001, 72001>>,
     <<72016, 72025>>, <<72096, 72103>>, <<72106, 72144>>, <<72161, 72161>>,
     <<72163, 72163>>, <<72192, 72192>>, <<72203, 72242>>, <<72250, 72250>>,
     <<72272, 72272>>, <<72284, 72329>>, <<72349, 72349>>, <<72368, 72440>>,
     <<72704, 72712>>, <<72714, 72750>>, <<72768, 72768>>, <<72784, 72812>>,
     <<72818, 72847>>, <<72960, 72966>>, <<72968, 72969>>, <<72971, 73008>>,
     <<73030, 73030>>, <<73040, 73049>>, <<73056, 73061>>, <<73063, 73064>>,
     <<73066, 73097>>, <<73112, 73112>>, <<73120, 73129>>, <<73440, 73458>>,
     <<73648, 73648>>, <<73664, 73684>>, <<73728, 74649>>, <<74752, 74862>>,
     <<74880, 75075>>, <<77712, 77808>>, <<77824, 78894>>, <<82944, 83526>>,
     <<92160, 92728>>, <<92736, 92766>>, <<92768, 92777>>, <<92784, 92862>>,
     <<92864, 92873>>, <<92880, 92909>>, <<92928, 92975>>, <<92992, 92995>>,
     <<93008, 93017>>, <<93019, 93025>>, <<93027, 93047>>, <<93053, 93071>>,
     <<93760, 93846>>, <<93952, 94026>>, <<94032, 94032>>, <<94099, 94111>>,
     <<94176, 94177>>, <<94179, 94179>>, <<94208, 100343>>,
     <<100352, 101589>>, <<101632, 101640>>, <<110576, 110579>>,
     <<110581, 110587>>, <<110589, 110590>>, <<110592, 110882>>,
     <<110928, 110930>>, <<110948, 110951>>, <<110960, 111355>>,
     <<113664, 113770>>, <<113776, 113788>>, <<113792, 113800>>,
     <<113808, 113817>>, <<119520, 119539>>, <<119648, 119672>>,
     <<119808, 119892>>, <<119894, 119964>>, <<119966, 119967>>,
     <<119970, 119970>>, <<119973, 119974>>, <<119977, 119980>>,
     <<119982, 119993>>, <<119995, 119995>>, <<119997, 120003>>,
     <<120005, 120069>>, <<120071, 120074>>, <<120077, 120084>>,
     <<120086, 120092>>, <<120094, 120121>>, <<120123, 120126>>,
     <<120128, 120132>>, <<120134, 120134>>, <<120138, 120144>>,
     <<120146, 120485>>, <<120488, 120512>>, <<120514, 120538>>,
     <<120540, 120570>>, <<120572, 120596>>, <<120598, 120628>>,
     <<120630, 120654>>, <<120656, 120686>>, <<120688, 120712>>,
     <<120714, 120744>>, <<120746, 120770>>, <<120772, 120779>>,
     <<120782, 120831>>, <<122624, 122654>>, <<123136, 123180>>,
     <<123191, 123197>>, <<123200, 123209>>, <<123214, 123214>>,
     <<123536, 123565>>, <<123584, 123627>>, <<123632, 123641>>,
     <<124896, 124902>>, <<124904, 124907>>, <<124909, 124910>>,
     <<124912, 124926>>, <<124928, 125124>>, <<125127, 125135>>,
     <<125184, 125251>>, <<125259, 125259>>, <<125264, 125273>>,
     <<126065, 126123>>, <<126125, 126127>>, <<126129, 126132>>,
     <<126209, 126253>>, <<126255, 126269>>, <<126464, 126467>>,
     <<126469, 126495>>, <<126497, 126498>>, <<126500, 126500>>,
     <<126503, 126503>>, <<126505, 126514>>, <<126516, 126519>>,
     <<126521, 126521>>, <<126523, 126523>>, <<126530, 126530>>,
     <<126535, 126535>>, <<126537, 126537>>, <<126539, 126539>>,
     <<126541, 126543>>, <<126545, 126546>>, <<126548, 126548>>,
     <<126551, 126551>>, <<126553, 126553>>, <<126555, 126555>>,
     <<126557, 126557>>, <<126559, 126559>>, <<126561, 126562>>,
     <<126564, 126564>>, <<126567, 126570>>, <<126572, 126578>>,
     <<126580, 126583>>, <<126585, 126588>>, <<126590, 126590>>,
     <<126592, 126601>>, <<126603, 126619>>, <<126625, 126627>>,
     <<126629, 126633>>, <<126635, 126651>>, <<127232, 127244>>,
     <<130032, 130041>>, <<131072, 173791>>, <<173824, 177976>>,
     <<177984, 178205>>, <<178208, 183969>>, <<183984, 191456>>,
     <<194560, 195101>>, <<196608, 201546>>}

\* The regular expression's \w.
WordChars == UNION {rg[1]..rg[2] : rg \in WordRanges}

\* s[p] when p is an index of s, and no character otherwise.
At(s, p) == IF p \in 1..Len(s) THEN s[p] ELSE -1

\* The first position at or after p whose character is not in Cls.
RECURSIVE SpanEnd(_, _, _)
SpanEnd(s, p, Cls) ==
    IF p <= Len(s) /\ s[p] \in Cls THEN SpanEnd(s, p + 1, Cls) ELSE p

\* The last position at or before p whose character is not in Cls (0: none).
RECURSIVE SpanStart(_, _, _)
SpanStart(s, p, Cls) ==
    IF p >= 1 /\ s[p] \in Cls THEN SpanStart(s, p - 1, Cls) ELSE p

\* str.strip(): leading and trailing whitespace removed.
Strip(s) ==
    SubSeq(s, SpanEnd(s, 1, Whitespace), SpanStart(s, Len(s), Whitespace))

\* str.rstrip("\n"): every trailing newline removed.
RStripNewline(s) == SubSeq(s, 1, SpanStart(s, Len(s), {Ord("\n")}))

\* sep.join(parts)
RECURSIVE Join(_, _)
Join(parts, sep) ==
    IF parts = <<>> THEN <<>>
    ELSE IF Len(parts) = 1 THEN parts[1]
    ELSE parts[1] \o sep \o Join(Tail(parts), sep)

\* c * n
Rep(c, n) == [k \in 1..n |-> c]

\* The decimal digits of a natural number ("%d").
RECURSIVE DecStr(_)
DecStr(n) ==
    IF n < 10 THEN <<Ord("0") + n>>
    ELSE DecStr(n \div 10) \o <<Ord("0") + (n % 10)>>

\* "%02d"
Pad2(n) == IF n < 10 THEN Str("0") \o DecStr(n) ELSE DecStr(n)

\* The position of the first line end ("\n" or "\r") at or after p
\* (Len(data) + 1: none).
RECURSIVE NewlinePos(_, _)
NewlinePos(data, p) ==
    IF p <= Len(data) /\ data[p] \notin {Ord("\n"), Ord("\r")}
    THEN NewlinePos(data, p + 1)
    ELSE p

\* The length of the line end at position e: 2 for "\r\n", 1 for "\n" and
\* for a "\r" alone.
LineEndLen(data, e) ==
    IF data[e] = Ord("\r") /\ At(data, e + 1) = Ord("\n") THEN 2 ELSE 1

\* Iterating a file opened in text mode (open(path, "r"), universal
\* newlines): the content cut after each line end, every line end read as
\* "\n"; a last line without a line end is a line too.
RECURSIVE FileLines(_)
FileLines(data) ==
    IF data = <<>> THEN <<>>
    ELSE IF NewlinePos(data, 1) > Len(data) THEN <<data>>
    ELSE <<SubSeq(data, 1, NewlinePos(data, 1) - 1) \o Str("\n")>>
             \o FileLines(SubSeq(data,
                                 NewlinePos(data, 1)
                                     + LineEndLen(data, NewlinePos(data, 1)),
                                 Len(data)))

\* f.read() of a file opened in text mode: the content with every line end
\* read as "\n".
TranslateNewlines(data) == Join(FileLines(data), <<>>)

(***************************************************************************)
(* TIMESTAMP_LINE_RE:                                                      *)
(*   ^\[(\d{1,2}:\d{2}:\d{2})\]\s+(Speaker\s+\w+):\s*$                     *)
(* No two adjacent pieces of the pattern share a character, so the greedy  *)
(* left-to-right scan below decides the match.                             *)
(***************************************************************************)
NoMatch == [matched |-> FALSE, timestamp |-> <<>>, speaker |-> <<>>]

SpeakerWord == Str("Speaker")

\* Whether the whole line matches. Each position is found once and named
\* by a quantifier over the one value it can have.
HeaderMatches(line) ==
    /\ At(line, 1) = Ord("[")
    /\ \E h \in {SpanEnd(line, 2, DigitChars)} :       \* after \d{1,2}
          /\ h - 2 \in {1, 2}
          /\ At(line, h) = Ord(":")
          /\ At(line, h + 1) \in DigitChars
          /\ At(line, h + 2) \in DigitChars
          /\ At(line, h + 3) = Ord(":")
          /\ At(line, h + 4) \in DigitChars
          /\ At(line, h + 5) \in DigitChars
          /\ At(line, h + 6) = Ord("]")
          /\ \E s1 \in {SpanEnd(line, h + 7, Whitespace)} :      \* after \s+
                /\ s1 > h + 7
                /\ s1 + 6 <= Len(line)
                /\ SubSeq(line, s1, s1 + 6) = SpeakerWord
                /\ \E s2 \in {SpanEnd(line, s1 + 7, Whitespace)} :
                      /\ s2 > s1 + 7
                      /\ \E w \in {SpanEnd(line, s2, WordChars)} :  \* after \w+
                            /\ w > s2
                            /\ At(line, w) = Ord(":")
                            /\ SpanEnd(line, w + 1, Whitespace)
                                  = Len(line) + 1

\* group(1) of a match: from after the bracket to the end of the seconds.
Group1(line) == SubSeq(line, 2, SpanEnd(line, 2, DigitChars) + 5)

\* group(2) of a match: from the S of Speaker to the last word character,
\* which stands in front of the colon that the trailing whitespace follows.
Group2(line) ==
    SubSeq(line,
           SpanEnd(line, SpanEnd(line, 2, DigitChars) + 7, Whitespace),
           SpanStart(line, Len(line), Whitespace) - 1)

TIMESTAMP_LINE_RE(line) ==
    IF HeaderMatches(line)
    THEN [matched |-> TRUE, timestamp |-> Group1(line),
          speaker |-> Group2(line)]
    ELSE NoMatch

(***************************************************************************)
(* format_timestamp (src/transcribe.py): str(timedelta(seconds=ms//1000)). *)
(***************************************************************************)
\* timedelta.__str__ of a whole number of seconds: "H:MM:SS", and in front
\* of it "<d> day, " or "<d> days, " when the duration reaches a day.
TimedeltaStr(seconds) ==
    LET days == seconds \div 86400
        rest == seconds % 86400
        hh   == rest \div 3600
        mm   == (rest \div 60) % 60
        ss   == rest % 60
        hms  == DecStr(hh) \o Str(":") \o Pad2(mm) \o Str(":") \o Pad2(ss)
    IN  IF days = 0 THEN hms
        ELSE DecStr(days) \o Str(" day")
                 \o (IF days = 1 THEN <<>> ELSE Str("s"))
                 \o Str(", ") \o hms

format_timestamp(ms) == TimedeltaStr(ms \div 1000)

(***************************************************************************)
(* State.                                                                  *)
(***************************************************************************)
VARIABLES
    \* --- the file system and the provider -------------------------------
    audio_exists,     \* os.path.exists(audio_path)
    key_file,         \* aai_api_key.txt: [exists, data]
    config_file,      \* config.json: [exists, json_ok, keys, models_ok]
    txt_file,         \* <audio-base>_transcript.txt: [exists, data]
    docx_file,        \* the output document: [exists, paragraphs]
    provider_calls,   \* number of transcriber.transcribe() requests made
    \* --- the Writer (transcribe.py) -------------------------------------
    wpc,              \* position of the Writer
    writer_exit,      \* exit code of the Writer (None: still running)
    transcript,       \* the provider's result: [status, utterances]; the
                      \* utterances are None or Some(list)
    f_open,           \* the output file has been opened for writing
    current_speaker,  \* transcribe(): current_speaker
    u,                \* transcribe(): utterances written so far
    \* --- the Formatter (txt_to_docx.py) ---------------------------------
    fpc,              \* position of the Formatter
    formatter_exit,   \* exit code of the Formatter (None: still running)
    error,            \* the exception main() caught ("": none)
    lines,            \* parse_transcript(): lines
    i,                \* parse_transcript(): i (0-based, as in the source)
    entries,          \* parse_transcript(): entries
    cur,              \* parse_transcript(): timestamp, speaker, utter_lines
    document,         \* create_docx_from_transcript(): document paragraphs
    speaker_colors,   \* create_docx_from_transcript(): speaker_colors
    r                 \* create_docx_from_transcript(): entries rendered

fsVars == <<audio_exists, key_file, config_file, txt_file, docx_file,
            provider_calls>>
writerVars == <<wpc, writer_exit, transcript, f_open, current_speaker, u>>
parserVars == <<lines, i, entries, cur>>
renderVars == <<document, speaker_colors, r>>
formatterVars == <<fpc, formatter_exit, error, parserVars, renderVars>>
vars == <<fsVars, writerVars, formatterVars>>

NoFile == [exists |-> FALSE, data |-> <<>>]
TextFile(data) == [exists |-> TRUE, data |-> data]

(***************************************************************************)
(* Inputs of the Writer.                                                   *)
(***************************************************************************)
\* os.path.basename(audio_path)
AudioBaseName == Str("c.m4a")

\* Contents of aai_api_key.txt: missing, empty, blank (a space, a no-break
\* space, a vertical tab, a newline), a key with a Windows line end.
KeyFiles ==
    {NoFile, TextFile(<<>>), TextFile(Str(" ") \o <<160, 11>> \o Str("\n")),
     TextFile(Str("\tk1\r\n"))}

\* Contents of config.json: missing, not JSON, a key missing, speech_models
\* not a non-empty list, valid.
ConfigFiles ==
    {[exists |-> FALSE, json_ok |-> FALSE, keys |-> {}, models_ok |-> FALSE],
     [exists |-> TRUE, json_ok |-> FALSE, keys |-> {}, models_ok |-> FALSE],
     [exists |-> TRUE, json_ok |-> TRUE, keys |-> {"speech_models"},
      models_ok |-> TRUE],
     [exists |-> TRUE, json_ok |-> TRUE, keys |-> {"language_code"},
      models_ok |-> FALSE],
     [exists |-> TRUE, json_ok |-> TRUE,
      keys |-> {"language_code", "speech_models"}, models_ok |-> FALSE],
     [exists |-> TRUE, json_ok |-> TRUE,
      keys |-> {"language_code", "speech_models", "speaker_labels"},
      models_ok |-> TRUE]}

\* utterance.speaker, utterance.start (ms) and utterance.text values.
SpeakerIds == {Str("A"), Str("B")}
StartMs == {5999, 3661000, 86400000}
Texts == {Str("hi"), Str(" a\r\nb.")}

Utterances == [speaker : SpeakerIds, start : StartMs, text : Texts]

\* The provider returns utterances in temporal order.
UtteranceLists ==
    {us \in UNION {[1..n -> Utterances] : n \in 0..MaxUtt} :
        \A k \in 1..(Len(us) - 1) : us[k].start <= us[k + 1].start}

\* What transcriber.transcribe() returns: an error; a completed transcript
\* with its utterances; a completed transcript whose utterances are None,
\* which is what the provider gives when speakers are not labelled
\* (speaker_labels false in config.json, line 72).
ProviderResults ==
    {[status |-> "error", utterances |-> None]} \cup
    {[status |-> "completed", utterances |-> None]} \cup
    {[status |-> "completed", utterances |-> Some(us)] : us \in UtteranceLists}

NoTranscript == [status |-> "none", utterances |-> None]

\* A transcript file left by an earlier run.
StaleFile == TextFile(Str("old\n"))

(***************************************************************************)
(* The Writer: transcribe.py.                                              *)
(***************************************************************************)
WriterExit(code) ==
    /\ wpc' = "exit"
    /\ writer_exit' = Some(code)

\* __main__, lines 109-115: the audio path is argv[1].
WriterMain ==
    /\ wpc = "main"
    /\ \E argc \in {1, 2} :
          IF argc < 2
          THEN WriterExit(1)
          ELSE wpc' = "check_audio" /\ UNCHANGED writer_exit
    /\ UNCHANGED <<fsVars, transcript, f_open, current_speaker, u,
                   formatterVars>>

\* transcribe(), lines 61-65.
CheckAudio ==
    /\ wpc = "check_audio"
    /\ IF ~audio_exists
       THEN WriterExit(1)
       ELSE wpc' = "load_api_key" /\ UNCHANGED writer_exit
    /\ UNCHANGED <<fsVars, transcript, f_open, current_speaker, u,
                   formatterVars>>

\* ApiKeyOf without .strip(): a key file of whitespace passes as a key.
ApiKeyOf_NoStrip(file) ==
    IF ~file.exists THEN None
    ELSE IF file.data = <<>> THEN None
    ELSE Some(TranslateNewlines(file.data))

\* load_api_key(): f.read().strip(), the key, or no key when the run must
\* end.
ApiKeyOf(file) ==
    IF ~file.exists THEN None
    ELSE IF Strip(TranslateNewlines(file.data)) = <<>> THEN None
    ELSE Some(Strip(TranslateNewlines(file.data)))

\* transcribe(), line 67.
LoadApiKey ==
    /\ wpc = "load_api_key"
    /\ IF ApiKeyOf(key_file) = None
       THEN WriterExit(1)
       ELSE wpc' = "load_config" /\ UNCHANGED writer_exit
    /\ UNCHANGED <<fsVars, transcript, f_open, current_speaker, u,
                   formatterVars>>

\* load_transcription_config(): whether it returns.
ConfigOk(file) ==
    /\ file.exists
    /\ file.json_ok
    /\ \A key \in {"language_code", "speech_models"} : key \in file.keys
    /\ file.models_ok

\* transcribe(), line 68.
LoadConfig ==
    /\ wpc = "load_config"
    /\ IF ~ConfigOk(config_file)
       THEN WriterExit(1)
       ELSE wpc' = "call_provider" /\ UNCHANGED writer_exit
    /\ UNCHANGED <<fsVars, transcript, f_open, current_speaker, u,
                   formatterVars>>

\* transcribe(), lines 70-77: blocks until the provider answers.
CallProvider ==
    /\ wpc = "call_provider"
    /\ \E res \in ProviderResults : transcript' = res
    /\ provider_calls' = provider_calls + 1
    /\ wpc' = "check_status"
    /\ UNCHANGED <<audio_exists, key_file, config_file, txt_file, docx_file,
                   writer_exit, f_open, current_speaker, u, formatterVars>>

\* transcribe(), lines 79-83.
CheckStatus ==
    /\ wpc = "check_status"
    /\ IF transcript.status = "error"
       THEN WriterExit(1)
       ELSE wpc' = "open_output" /\ UNCHANGED writer_exit
    /\ UNCHANGED <<fsVars, transcript, f_open, current_speaker, u,
                   formatterVars>>

\* The two lines every transcript file starts with.
RuleLen == 60
FileHeading ==
    Str("TRANSCRIPT: ")
        \o AudioBaseName \o Str("\n") \o Rep(Ord("="), RuleLen) \o Str("\n\n")

\* transcribe(), lines 85-93: open(output_path, "w") truncates the file.
OpenOutput ==
    /\ wpc = "open_output"
    /\ f_open' = TRUE
    /\ txt_file' = TextFile(FileHeading)
    /\ current_speaker' = None
    /\ u' = 0
    /\ wpc' = "write"
    /\ UNCHANGED <<audio_exists, key_file, config_file, docx_file,
                   provider_calls, writer_exit, transcript, formatterVars>>

\* speaker = f"Speaker {utterance.speaker}"
SpeakerLabel(utt) ==
    SpeakerWord \o Str(" ") \o utt.speaker

\* f"[{timestamp}] {speaker}:\n"
HeaderLine(timestamp, speaker) ==
    Str("[") \o timestamp \o Str("] ") \o speaker \o Str(":\n")

\* One pass of the loop, lines 95-105: what it writes after `current`.
UtteranceBlock(current, utt) ==
    LET speaker   == SpeakerLabel(utt)
        timestamp == format_timestamp(utt.start)
    IN  (IF Some(speaker) # current
         THEN (IF current # None THEN Str("\n") ELSE <<>>)
                  \o HeaderLine(timestamp, speaker)
         ELSE <<>>)
        \o utt.text \o Str("\n")

\* transcript.utterances when it is a list, and the empty list otherwise.
UtteranceList ==
    IF transcript.utterances = None THEN <<>> ELSE transcript.utterances[1]

\* transcribe(), line 94: transcript.utterances is None and the for
\* statement raises TypeError, which nothing catches: the with statement
\* closes the file, which holds the two heading lines, and the interpreter
\* ends with a traceback and exit code 1.
WriteCrash ==
    /\ wpc = "write"
    /\ transcript.utterances = None
    /\ f_open' = FALSE
    /\ wpc' = "crash"
    /\ writer_exit' = Some(1)
    /\ UNCHANGED <<fsVars, transcript, current_speaker, u, formatterVars>>

\* transcribe(), lines 94-105.
WriteUtterance ==
    /\ wpc = "write"
    /\ transcript.utterances # None
    /\ u < Len(UtteranceList)
    /\ LET utt == UtteranceList[u + 1]
       IN  /\ txt_file' =
                 TextFile(txt_file.data \o UtteranceBlock(current_speaker, utt))
           /\ current_speaker' = Some(SpeakerLabel(utt))
    /\ u' = u + 1
    /\ UNCHANGED <<audio_exists, key_file, config_file, docx_file,
                   provider_calls, wpc, writer_exit, transcript, f_open,
                   formatterVars>>

\* transcribe(), lines 94 and 107: the loop ends, the file is closed.
WriterDone ==
    /\ wpc = "write"
    /\ transcript.utterances # None
    /\ u = Len(UtteranceList)
    /\ f_open' = FALSE
    /\ wpc' = "done"
    /\ writer_exit' = Some(0)
    /\ UNCHANGED <<fsVars, transcript, current_speaker, u, formatterVars>>

WriterNext ==
    \/ WriterMain
    \/ CheckAudio
    \/ LoadApiKey
    \/ LoadConfig
    \/ CallProvider
    \/ CheckStatus
    \/ OpenOutput
    \/ WriteCrash
    \/ WriteUtterance
    \/ WriterDone

(***************************************************************************)
(* The Formatter: txt_to_docx.py.                                          *)
(***************************************************************************)
NoDocument == [exists |-> FALSE, paragraphs |-> <<>>]

NoEntry == [timestamp |-> <<>>, speaker |-> <<>>, utter_lines |-> <<>>]

\* lines[i] of the source (i counts from 0).
Line(k) == lines[k + 1]

IsHeader(line) == TIMESTAMP_LINE_RE(line).matched
IsBlank(line) == Strip(line) = <<>>

FormatterExit(code, exc) ==
    /\ fpc' = "exit"
    /\ formatter_exit' = Some(code)
    /\ error' = exc

\* main(), lines 165-182. The two tools are run one after the other.
FormatterMain ==
    /\ fpc = "main"
    /\ wpc \in {"idle", "done", "exit", "crash"}
    /\ \E argc \in {1, 2, 3} :
          IF argc < 2 \/ ~txt_file.exists
          THEN FormatterExit(1, "")
          ELSE fpc' = "read" /\ UNCHANGED <<formatter_exit, error>>
    /\ UNCHANGED <<fsVars, writerVars, parserVars, renderVars>>

\* parse_transcript(), lines 20-24.
ReadLines ==
    /\ fpc = "read"
    /\ lines' = [k \in 1..Len(FileLines(txt_file.data)) |->
                    RStripNewline(FileLines(txt_file.data)[k])]
    /\ entries' = <<>>
    /\ i' = 0
    /\ fpc' = "skip_heading"
    /\ UNCHANGED <<fsVars, writerVars, formatter_exit, error, cur,
                   renderVars>>

\* parse_transcript(), lines 27-28: one pass of the first loop.
SkipHeadingLine ==
    /\ fpc = "skip_heading"
    /\ i < Len(lines) /\ ~IsHeader(Line(i))
    /\ i' = i + 1
    /\ UNCHANGED <<fsVars, writerVars, fpc, formatter_exit, error, lines,
                   entries, cur, renderVars>>

\* parse_transcript(), line 27: the first loop ends.
SkipHeadingEnd ==
    /\ fpc = "skip_heading"
    /\ ~(i < Len(lines) /\ ~IsHeader(Line(i)))
    /\ fpc' = "scan"
    /\ UNCHANGED <<fsVars, writerVars, formatter_exit, error, parserVars,
                   renderVars>>

\* parse_transcript(), lines 30-34: a line that is no header is passed over.
ScanSkipLine ==
    /\ fpc = "scan"
    /\ i < Len(lines) /\ ~IsHeader(Line(i))
    /\ i' = i + 1
    /\ UNCHANGED <<fsVars, writerVars, fpc, formatter_exit, error, lines,
                   entries, cur, renderVars>>

\* ScanHeader with `i += 1` (line 38) forgotten.
ScanHeader_NoAdvance ==
    /\ fpc = "scan"
    /\ i < Len(lines) /\ IsHeader(Line(i))
    /\ cur' = [timestamp   |-> TIMESTAMP_LINE_RE(Line(i)).timestamp,
               speaker     |-> TIMESTAMP_LINE_RE(Line(i)).speaker,
               utter_lines |-> <<>>]
    /\ fpc' = "collect"
    /\ UNCHANGED <<fsVars, writerVars, formatter_exit, error, lines, i,
                   entries, renderVars>>

\* parse_transcript(), lines 30-40: a header line starts an utterance.
ScanHeader ==
    /\ fpc = "scan"
    /\ i < Len(lines) /\ IsHeader(Line(i))
    /\ cur' = [timestamp   |-> TIMESTAMP_LINE_RE(Line(i)).timestamp,
               speaker     |-> TIMESTAMP_LINE_RE(Line(i)).speaker,
               utter_lines |-> <<>>]
    /\ i' = i + 1
    /\ fpc' = "collect"
    /\ UNCHANGED <<fsVars, writerVars, formatter_exit, error, lines, entries,
                   renderVars>>

\* parse_transcript(), lines 42-46: the condition of the collecting loop.
CollectMore ==
    /\ i < Len(lines)
    /\ ~IsBlank(Line(i))
    /\ ~IsHeader(Line(i))

\* CollectLine with the line appended as it is, not stripped.
CollectLine_NoStrip ==
    /\ fpc = "collect"
    /\ CollectMore
    /\ cur' = [cur EXCEPT !.utter_lines = Append(@, Line(i))]
    /\ i' = i + 1
    /\ UNCHANGED <<fsVars, writerVars, fpc, formatter_exit, error, lines,
                   entries, renderVars>>

\* parse_transcript(), lines 42-48: one pass of the collecting loop.
CollectLine ==
    /\ fpc = "collect"
    /\ CollectMore
    /\ cur' = [cur EXCEPT !.utter_lines = Append(@, Strip(Line(i)))]
    /\ i' = i + 1
    /\ UNCHANGED <<fsVars, writerVars, fpc, formatter_exit, error, lines,
                   entries, renderVars>>

\* text = " ".join(utter_lines).strip(); the entry appended, lines 50-51.
EntryOf(c) ==
    [timestamp |-> c.timestamp,
     speaker   |-> c.speaker,
     text      |-> Strip(Join(c.utter_lines, Str(" ")))]

\* AppendEntry with an utterance without text left out.
AppendEntry_DropEmpty ==
    /\ fpc = "collect"
    /\ ~CollectMore
    /\ entries' = IF EntryOf(cur).text = <<>> THEN entries
                  ELSE Append(entries, EntryOf(cur))
    /\ fpc' = "skip_blank"
    /\ UNCHANGED <<fsVars, writerVars, formatter_exit, error, lines, i, cur,
                   renderVars>>

\* parse_transcript(), lines 42-51: the collecting loop ends.
AppendEntry ==
    /\ fpc = "collect"
    /\ ~CollectMore
    /\ entries' = Append(entries, EntryOf(cur))
    /\ fpc' = "skip_blank"
    /\ UNCHANGED <<fsVars, writerVars, formatter_exit, error, lines, i, cur,
                   renderVars>>

\* parse_transcript(), lines 54-55: one pass of the blank-skipping loop.
SkipBlankLine ==
    /\ fpc = "skip_blank"
    /\ i < Len(lines) /\ IsBlank(Line(i))
    /\ i' = i + 1
    /\ UNCHANGED <<fsVars, writerVars, fpc, formatter_exit, error, lines,
                   entries, cur, renderVars>>

\* parse_transcript(), lines 54 and 30: back to the outer loop.
SkipBlankEnd ==
    /\ fpc = "skip_blank"
    /\ ~(i < Len(lines) /\ IsBlank(Line(i)))
    /\ fpc' = "scan"
    /\ UNCHANGED <<fsVars, writerVars, formatter_exit, error, parserVars,
                   renderVars>>

\* parse_transcript(), lines 30 and 57: return entries.
ParseReturn ==
    /\ fpc = "scan"
    /\ ~(i < Len(lines))
    /\ fpc' = "check_entries"
    /\ UNCHANGED <<fsVars, writerVars, formatter_exit, error, parserVars,
                   renderVars>>

ParserNext ==
    \/ ReadLines
    \/ SkipHeadingLine
    \/ SkipHeadingEnd
    \/ ScanSkipLine
    \/ ScanHeader
    \/ CollectLine
    \/ AppendEntry
    \/ SkipBlankLine
    \/ SkipBlankEnd
    \/ ParseReturn

(***************************************************************************)
(* The Document Renderer: create_docx_from_transcript().                   *)
(* A paragraph is [style, runs]; a run is [text, bold, italic, color].     *)
(* The fixed texts of the preamble are kept as one piece each.             *)
(***************************************************************************)
Run(text, bold, italic, color) ==
    [text |-> text, bold |-> bold, italic |-> italic, color |-> color]

Para(style, runs) == [style |-> style, runs |-> runs]

BlankPara == Para("Normal", <<>>)

color_palette ==
    << <<31, 73, 125>>, <<79, 129, 189>>, <<112, 48, 160>>,
       <<0, 128, 0>>, <<192, 80, 77>>, <<128, 96, 0>> >>

\* Lines 84-123: title, subtitle, session date (left out when the file's
\* modification time cannot be read), blank, note, blank.
Preamble(mtime_ok) ==
    << Para("Title",
            <<Run(<<"Therapy Session Transcript">>, FALSE, FALSE, None)>>),
       Para("Subtitle",
            <<Run(<<"Source file: ", "<txt base name>">>, FALSE, FALSE,
                  None)>>) >>
    \o (IF mtime_ok
        THEN << Para("Normal",
                     <<Run(<<"Session date (file timestamp): ">>, TRUE,
                           FALSE, None),
                       Run(<<"%Y-%m-%d %H:%M">>, FALSE, FALSE, None)>>) >>
        ELSE <<>>)
    \o << BlankPara,
          Para("Normal",
               <<Run(<<"Note: This transcript is anonymized ...">>, FALSE,
                     TRUE, None)>>),
          BlankPara >>

\* RejectNoEntries with the check of lines 81-82 left out: the document is
\* built from no entries.
RejectNoEntries_Unchecked ==
    /\ fpc = "check_entries"
    /\ entries = <<>>
    /\ \E mtime_ok \in BOOLEAN : document' = Preamble(mtime_ok)
    /\ speaker_colors' = <<>>
    /\ r' = 0
    /\ fpc' = "render"
    /\ UNCHANGED <<fsVars, writerVars, formatter_exit, error, parserVars>>

\* create_docx_from_transcript(), lines 81-82: no entries, ValueError, which
\* main() catches (lines 186-188).
RejectNoEntries ==
    /\ fpc = "check_entries"
    /\ entries = <<>>
    /\ FormatterExit(1, "ValueError")
    /\ UNCHANGED <<fsVars, writerVars, parserVars, renderVars>>

\* create_docx_from_transcript(), lines 84-135.
BuildPreamble ==
    /\ fpc = "check_entries"
    /\ entries # <<>>
    /\ \E mtime_ok \in BOOLEAN : document' = Preamble(mtime_ok)
    /\ speaker_colors' = <<>>
    /\ r' = 0
    /\ fpc' = "render"
    /\ UNCHANGED <<fsVars, writerVars, formatter_exit, error, parserVars>>

\* ColorFor with the palette index counted from the mapping's size after
\* the insertion, not before it.
ColorFor_OffByOne(colors, speaker) ==
    IF speaker \notin DOMAIN colors
    THEN color_palette[((Cardinality(DOMAIN colors) + 1)
                            % Len(color_palette)) + 1]
    ELSE colors[speaker]

\* Lines 140-144: the color of a speaker, given the mapping so far.
ColorFor(colors, speaker) ==
    IF speaker \notin DOMAIN colors
    THEN color_palette[(Cardinality(DOMAIN colors) % Len(color_palette)) + 1]
    ELSE colors[speaker]

\* UtteranceParagraphs without the `if text:` of line 153.
UtteranceParagraphs_AlwaysText(entry, color) ==
    << Para("Normal",
            <<Run(Str("[") \o entry.timestamp \o Str("] ") \o entry.speaker,
                  TRUE, FALSE, color)>>),
       Para("Normal", <<Run(entry.text, FALSE, FALSE, color)>>),
       BlankPara >>

\* Lines 147-159: the paragraphs added for one utterance.
UtteranceParagraphs(entry, color) ==
    << Para("Normal",
            <<Run(Str("[") \o entry.timestamp \o Str("] ") \o entry.speaker,
                  TRUE, FALSE, color)>>) >>
    \o (IF entry.text # <<>>
        THEN << Para("Normal", <<Run(entry.text, FALSE, FALSE, color)>>) >>
        ELSE <<>>)
    \o << BlankPara >>

\* create_docx_from_transcript(), lines 138-159: one pass of the loop.
RenderUtterance ==
    /\ fpc = "render"
    /\ r < Len(entries)
    /\ LET entry == entries[r + 1]
           color == ColorFor(speaker_colors, entry.speaker)
       IN  /\ speaker_colors' =
                 [s \in DOMAIN speaker_colors \cup {entry.speaker} |->
                     IF s = entry.speaker THEN color ELSE speaker_colors[s]]
           /\ document' = document \o UtteranceParagraphs(entry, color)
    /\ r' = r + 1
    /\ UNCHANGED <<fsVars, writerVars, fpc, formatter_exit, error,
                   parserVars>>

\* Lines 161 and 184-190: document.save(docx_path), which fails when the
\* path cannot be written.
SaveDocument ==
    /\ fpc = "render"
    /\ r = Len(entries)
    /\ \E writable \in BOOLEAN :
          IF writable
          THEN /\ docx_file' = [exists |-> TRUE, paragraphs |-> document]
               /\ fpc' = "done"
               /\ formatter_exit' = Some(0)
               /\ error' = ""
          ELSE /\ FormatterExit(1, "OSError")
               /\ UNCHANGED docx_file
    /\ UNCHANGED <<audio_exists, key_file, config_file, txt_file,
                   provider_calls, writerVars, parserVars, renderVars>>

RenderNext ==
    \/ RejectNoEntries
    \/ BuildPreamble
    \/ RenderUtterance
    \/ SaveDocument

FormatterNext ==
    \/ FormatterMain
    \/ ParserNext
    \/ RenderNext

(***************************************************************************)
(* Inputs of the Formatter when it is started on a file by hand.           *)
(***************************************************************************)
\* Lines a transcript file is made of: empty; whitespace only (space, tab,
\* no-break space, vertical tab); two header lines, the second with a
\* two-digit hour whose second digit is ARABIC-INDIC DIGIT TWO, a vertical
\* tab, a no-break space and a space, a speaker word with an e-acute and an
\* underscore, and a trailing IDEOGRAPHIC SPACE; two text lines, the first
\* between an EM SPACE and a space; and a header without its colon.
LinePool ==
    { <<>>,
      Str(" \t") \o <<160, 11>>,
      Str("[0:00:05] Speaker A:"),
      Str("[1") \o <<1634>> \o Str(":34:56]") \o <<11>> \o Str("Speaker")
          \o <<160>> \o Str(" B") \o <<233>> \o Str("_2:") \o <<12288>>,
      <<8195>> \o Str("hi "),
      Str("yo"),
      Str("[0:00:09] Speaker A") }

LineSeqs == UNION {[1..n -> LinePool] : n \in 0..MaxLines}

\* The file whose lines are ls, each ended by a newline.
FileOf(ls) ==
    TextFile(Join([k \in 1..Len(ls) |-> ls[k] \o Str("\n")], <<>>))

\* The header line of the j-th of many speakers.
SpeakerHeader(j) ==
    RStripNewline(HeaderLine(format_timestamp(j * 1000),
                             SpeakerWord \o Str(" S") \o DecStr(j)))

\* Files of header lines only: n speakers in turn, then speaker k again
\* (k = 0: nobody). The lines are separated by a carriage return alone; the
\* last line has no line end.
ManySpeakerFiles ==
    {TextFile(Join([j \in 1..(n + (IF k = 0 THEN 0 ELSE 1)) |->
                       SpeakerHeader(IF j <= n THEN j ELSE k)], Str("\r"))) :
        n \in 1..MaxSpk, k \in 0..MaxSpk}

InputFiles ==
    {NoFile} \cup {FileOf(ls) : ls \in LineSeqs} \cup ManySpeakerFiles

(***************************************************************************)
(* Specifications.                                                         *)
(***************************************************************************)
FormatterInit ==
    /\ fpc = "main"
    /\ formatter_exit = None
    /\ error = ""
    /\ lines = <<>>
    /\ i = 0
    /\ entries = <<>>
    /\ cur = NoEntry
    /\ document = <<>>
    /\ speaker_colors = <<>>
    /\ r = 0
    /\ docx_file = NoDocument

WriterIdle ==
    /\ writer_exit = None
    /\ transcript = NoTranscript
    /\ f_open = FALSE
    /\ current_speaker = None
    /\ u = 0
    /\ provider_calls = 0

\* The Formatter started on a transcript file; the Writer is not run.
Init ==
    /\ wpc = "idle"
    /\ WriterIdle
    /\ audio_exists = TRUE
    /\ key_file = NoFile
    /\ config_file \in {c \in ConfigFiles : ~c.exists}
    /\ txt_file \in InputFiles
    /\ FormatterInit

Next == FormatterNext

Spec == Init /\ [][Next]_vars

\* The Writer run on an audio file, then the Formatter on its result.
PipelineInit ==
    /\ wpc = "main"
    /\ WriterIdle
    /\ audio_exists \in BOOLEAN
    /\ key_file \in KeyFiles
    /\ config_file \in ConfigFiles
    /\ txt_file \in {NoFile, StaleFile}
    /\ FormatterInit

PipelineNext == WriterNext \/ FormatterNext

PipelineSpec == PipelineInit /\ [][PipelineNext]_vars
(***************************************************************************)
(* Properties of the parser (specification Spec).                          *)
(***************************************************************************)
\* parse_transcript() has returned and its result is about to be used.
Parsed == fpc = "check_entries"

\* The indexes of the header lines of ls, in file order.
HeaderIndexes(ls) ==
    SelectSeq([k \in 1..Len(ls) |-> k], LAMBDA k : IsHeader(ls[k]))

\* The position of the first character c of s (Len(s) + 1: none).
RECURSIVE FirstPos(_, _, _)
FirstPos(s, c, p) ==
    IF p <= Len(s) /\ s[p] # c THEN FirstPos(s, c, p + 1) ELSE p

\* What a header line shows between its brackets, and between the closing
\* bracket and the colon that ends it.
ShownTimestamp(line) == SubSeq(line, 2, FirstPos(line, Ord("]"), 1) - 1)
ShownSpeaker(line) ==
    Strip(SubSeq(line, FirstPos(line, Ord("]"), 1) + 1, Len(Strip(line)) - 1))

\* The last line of the run of text lines that starts at line p of ls
\* (p - 1: the run is empty).
RECURSIVE RunEnd(_, _)
RunEnd(ls, p) ==
    IF p <= Len(ls) /\ ~IsBlank(ls[p]) /\ ~IsHeader(ls[p])
    THEN RunEnd(ls, p + 1)
    ELSE p - 1

\* The text lines that follow header line h, trimmed and joined by spaces.
RunText(ls, h) ==
    Strip(Join([j \in 1..(RunEnd(ls, h + 1) - h) |-> Strip(ls[h + j])],
               Str(" ")))

\* C3: the parser emits exactly one utterance per header line, in file
\* order, with that line's timestamp and speaker label; a header that has
\* no text line after it is emitted with empty text.
C3_OneEntryPerHeader ==
    Parsed =>
        LET h == HeaderIndexes(lines)
        IN  /\ Len(entries) = Len(h)
            /\ \A k \in 1..Len(h) :
                  /\ entries[k].timestamp = ShownTimestamp(lines[h[k]])
                  /\ entries[k].speaker = ShownSpeaker(lines[h[k]])
                  /\ (h[k] = Len(lines) \/ IsBlank(lines[h[k] + 1])
                        \/ IsHeader(lines[h[k] + 1]))
                     => entries[k].text = <<>>

\* A file in which one header line directly follows another has been parsed:
\* two utterances, the first with empty text.
C3_Witness ==
    /\ Parsed
    /\ Len(entries) >= 2
    /\ entries[1].text = <<>>
    /\ \E p \in 1..(Len(lines) - 1) : IsHeader(lines[p]) /\ IsHeader(lines[p + 1])

\* C9: the text of every utterance is the run of text lines right after its
\* header, each trimmed, joined by single spaces; the run ends at the first
\* blank line or header, and text lines after a blank separator are in no
\* utterance.
C9_TextIsFollowingRun ==
    Parsed =>
        LET h == HeaderIndexes(lines)
        IN  /\ Len(entries) = Len(h)
            /\ \A k \in 1..Len(h) : entries[k].text = RunText(lines, h[k])

\* A parsed file with a two-line utterance text.
C9_Witness ==
    /\ Parsed
    /\ \E k \in 1..Len(entries) :
          /\ entries[k].text = Str("yo hi")
    /\ \E p \in 1..Len(lines) : IsBlank(lines[p])

\* The parser is at one of its loops.
InParser == fpc \in {"skip_heading", "scan", "collect", "skip_blank"}

\* What is left of the pass: the lines not yet passed, and within a line
\* the loops still to be left.
ParserMeasure ==
    4 * (Len(lines) - i)
        + (CASE fpc = "skip_heading" -> 3
             [] fpc = "collect"      -> 2
             [] fpc = "skip_blank"   -> 1
             [] OTHER                -> 0)

\* C10: the parser is a terminating single forward pass: i never decreases,
\* every pass of a loop moves i forward by one line, every step of the
\* parser brings it nearer to the end of the lines, it can always take a
\* step until it returns, it returns with i = number of lines, and its
\* result is never longer than the number of lines passed.
C10_SingleForwardPass ==
    /\ [][/\ i' >= i
          /\ (InParser /\ fpc' = fpc) => i' = i + 1
          /\ (fpc = "scan" /\ fpc' = "collect") => i' = i + 1
          /\ (InParser /\ InParser') => ParserMeasure' < ParserMeasure
          /\ InParser => lines' = lines]_vars
    /\ [](/\ Len(entries) <= i
          /\ i <= Len(lines)
          /\ Parsed => i = Len(lines)
          /\ InParser => ENABLED ParserNext)

\* The parser has returned from a file of the greatest length with more
\* than one utterance.
C10_Witness ==
    /\ Parsed
    /\ i = Len(lines)
    /\ Len(lines) >= MaxLines
    /\ Len(entries) >= 2
    /\ \E p \in 1..Len(lines) : ~IsHeader(lines[p])

(***************************************************************************)
(* Properties of main() and of the Document Renderer (specification Spec). *)
(***************************************************************************)
\* The transcript file has a line that matches the header pattern.
HasHeaderLine ==
    \E ls \in {FileLines(txt_file.data)} :
        \E k \in 1..Len(ls) : IsHeader(RStripNewline(ls[k]))

\* C4: a file without header lines parses to the empty list, is rejected
\* with the no-entries error before a document is built or saved, and the
\* Formatter exits with code 1; a file with a header line never raises the
\* no-entries error.
C4_NoHeaderRejected ==
    /\ (txt_file.exists /\ ~HasHeaderLine) =>
          /\ entries = <<>>
          /\ fpc \notin {"render", "done"}
          /\ document = <<>>
          /\ ~docx_file.exists
          /\ fpc = "exit" => formatter_exit = Some(1)
          /\ (fpc = "exit" /\ lines # <<>>) => error = "ValueError"
    /\ error = "ValueError" =>
          /\ txt_file.exists /\ ~HasHeaderLine
          /\ formatter_exit = Some(1)
    /\ (Parsed /\ HasHeaderLine) => entries # <<>>

\* A file of several lines, none a header, has been rejected.
C4_Witness ==
    /\ fpc = "exit"
    /\ error = "ValueError"
    /\ formatter_exit = Some(1)
    /\ Len(lines) >= 2
    /\ \E p \in 1..Len(lines) : ~IsBlank(lines[p])
    /\ ~docx_file.exists

\* The renderer is at work or has saved the document.
Rendering == fpc \in {"render", "done"}

\* The preamble has five paragraphs, and a sixth when the session date is
\* shown.
PreambleLen == IF document[3] = BlankPara THEN 5 ELSE 6

\* The paragraphs after the preamble.
Body == SubSeq(document, PreambleLen + 1, Len(document))

\* The heading and text paragraphs of an utterance, as they must look.
HeadingPara(e) ==
    [style |-> "Normal",
     runs  |-> << [text   |-> Str("[") \o e.timestamp \o Str("] ")
                                 \o e.speaker,
                   bold   |-> TRUE,
                   italic |-> FALSE,
                   color  |-> speaker_colors[e.speaker]] >>]

TextPara(e) ==
    [style |-> "Normal",
     runs  |-> << [text   |-> e.text,
                   bold   |-> FALSE,
                   italic |-> FALSE,
                   color  |-> speaker_colors[e.speaker]] >>]

SpacerPara == [style |-> "Normal", runs |-> <<>>]

\* C5 as stated: three paragraphs (heading, text, spacer) for every
\* utterance rendered, 3n paragraphs after the preamble.
C5_ThreeParagraphsEach ==
    Rendering =>
        /\ Len(Body) = 3 * r
        /\ \A k \in 1..r :
              /\ Body[3 * k - 2] = HeadingPara(entries[k])
              /\ Body[3 * k - 1] = TextPara(entries[k])
              /\ Body[3 * k] = SpacerPara

\* The paragraphs of the first k utterances: the text paragraph is there
\* only for an utterance with text.
RECURSIVE BlocksUpTo(_)
BlocksUpTo(k) ==
    IF k = 0 THEN <<>>
    ELSE BlocksUpTo(k - 1)
             \o <<HeadingPara(entries[k])>>
             \o (IF entries[k].text = <<>> THEN <<>>
                 ELSE <<TextPara(entries[k])>>)
             \o <<SpacerPara>>

\* C5, amended: per utterance, in input order, a bold heading in the
\* speaker's color, then the text paragraph in the same color unless the
\* text is empty, then a spacer: 3n paragraphs less one per empty text.
C5_ParagraphsPerUtterance ==
    /\ Rendering =>
          /\ Body = BlocksUpTo(r)
          /\ Len(Body) =
                3 * r - Cardinality({k \in 1..r : entries[k].text = <<>>})
    /\ fpc = "done" =>
          /\ r = Len(entries)
          /\ docx_file.exists
          /\ docx_file.paragraphs = document

\* A saved document with an utterance without text and one with text.
C5_Witness ==
    /\ fpc = "done"
    /\ \E k \in 1..r : entries[k].text = <<>>
    /\ \E k \in 1..r : entries[k].text # <<>>

\* The number of distinct speaker labels before the first appearance of s
\* among the utterances rendered.
FirstSeenRank(s) ==
    LET first == CHOOSE j \in 1..r :
                    /\ entries[j].speaker = s
                    /\ \A j2 \in 1..(j - 1) : entries[j2].speaker # s
    IN  Cardinality({entries[j].speaker : j \in 1..(first - 1)})

\* The colors of all runs of the paragraphs after the preamble that show
\* speaker s in their heading, and of the text paragraphs that follow them.
RECURSIVE ColorsUsed(_, _)
ColorsUsed(s, k) ==
    IF k = 0 THEN {}
    ELSE ColorsUsed(s, k - 1) \cup
         (IF entries[k].speaker # s THEN {}
          ELSE LET at == Len(BlocksUpTo(k - 1))
               IN  {Body[at + 1].runs[1].color} \cup
                   (IF entries[k].text = <<>> THEN {}
                    ELSE {Body[at + 2].runs[1].color}))

\* C6: the k-th distinct speaker label in first-seen order (k from 0) has
\* palette color k mod 6; an entry of the mapping never changes; every
\* heading and text paragraph of a speaker has that one color.
C6_SpeakerColors ==
    /\ [](Rendering =>
             /\ DOMAIN speaker_colors = {entries[j].speaker : j \in 1..r}
             /\ \A s \in DOMAIN speaker_colors :
                   /\ speaker_colors[s] =
                         color_palette[(FirstSeenRank(s) % 6) + 1]
                   /\ Len(Body) >= Len(BlocksUpTo(r))
                   /\ ColorsUsed(s, r) = {speaker_colors[s]})
    /\ [][Rendering =>
             \A s \in DOMAIN speaker_colors :
                 /\ s \in DOMAIN speaker_colors'
                 /\ speaker_colors'[s] = speaker_colors[s]]_vars

\* More speakers than the palette has colors, and one of them twice.
C6_Witness ==
    /\ fpc = "done"
    /\ Cardinality(DOMAIN speaker_colors) > Len(color_palette)
    /\ r > Cardinality(DOMAIN speaker_colors)

(***************************************************************************)
(* Properties of the Writer and of the two tools in a row (specification   *)
(* PipelineSpec).                                                          *)
(***************************************************************************)
\* The Writer has opened its output and written u utterances.
Writing == wpc \in {"write", "done"}

\* The lines of the transcript file, without their newlines.
WrittenLines ==
    [k \in 1..Len(FileLines(txt_file.data)) |->
        RStripNewline(FileLines(txt_file.data)[k])]

\* "[<timestamp>] Speaker <label>:" for an utterance.
HeaderFor(timestamp, utt) ==
    Str("[") \o timestamp \o Str("] Speaker ") \o utt.speaker \o Str(":")

\* A line of the shape "[...] Speaker <label>:".
IsWrittenHeader(line) ==
    /\ Len(line) >= 2
    /\ line[1] = Ord("[")
    /\ line[Len(line)] = Ord(":")
    /\ \E utt \in Utterances, p \in 1..Len(line) :
          SubSeq(line, p, Len(line)) =
              Str("] Speaker ")
                  \o utt.speaker \o Str(":")

\* C2: every utterance written is preceded by its own header line, also
\* when its speaker is the speaker of the utterance before it: the file has
\* as many header lines as utterances.
C2_HeaderPerUtterance ==
    Writing =>
        /\ Cardinality({k \in 1..Len(WrittenLines) :
                           IsWrittenHeader(WrittenLines[k])}) = u
        /\ \A k \in 1..u :
              \E p \in 1..Len(WrittenLines) :
                  WrittenLines[p] =
                      HeaderFor(format_timestamp(UtteranceList[k].start),
                                UtteranceList[k])

\* "H:MM:SS" of an elapsed time: hours not wrapped at 24.
ElapsedHMS(ms) ==
    DecStr(ms \div 3600000) \o Str(":") \o Pad2((ms \div 60000) % 60)
        \o Str(":") \o Pad2((ms \div 1000) % 60)

\* The utterance starts a block: the Writer puts a header in front of it.
StartsBlock(k) ==
    k = 1 \/ UtteranceList[k].speaker
                 # UtteranceList[k - 1].speaker

\* C7: the timestamp of every utterance is the elapsed time H:MM:SS with
\* H = ms div 3600000, and so every header line written carries a timestamp
\* of digits and colons only.
C7_ElapsedDuration ==
    Writing =>
        \A k \in 1..u :
            LET utt == UtteranceList[k]
            IN  /\ format_timestamp(utt.start) = ElapsedHMS(utt.start)
                /\ StartsBlock(k) =>
                      \E p \in 1..Len(WrittenLines) :
                          WrittenLines[p] = HeaderFor(ElapsedHMS(utt.start), utt)
                /\ \A p \in 1..Len(WrittenLines) :
                      IsWrittenHeader(WrittenLines[p]) =>
                          \A q \in 2..(FirstPos(WrittenLines[p], Ord("]"), 1)
                                          - 1) :
                              WrittenLines[p][q] \in DigitChars \cup {Ord(":")}

\* The text of an utterance as the round trip may change it: line ends to
\* spaces, whitespace trimmed at both ends.
NormalizeText(t) ==
    Strip([k \in 1..Len(TranslateNewlines(t)) |->
              IF TranslateNewlines(t)[k] = Ord("\n") THEN Ord(" ")
              ELSE TranslateNewlines(t)[k]])

\* The timestamp is one the header pattern accepts.
IsPatternTimestamp(ts) ==
    IsHeader(Str("[") \o ts
                 \o Str("] Speaker A:"))

\* The Formatter has parsed the file the Writer has just written.
RoundTripDone == wpc = "done" /\ Parsed

\* C1: writing a list of utterances whose timestamps match the header
\* pattern and parsing the file gives the same list of (timestamp, speaker,
\* text), of the same length, up to the normalization of the text.
C1_RoundTrip ==
    (/\ RoundTripDone
     /\ \A k \in 1..Len(UtteranceList) :
           IsPatternTimestamp(format_timestamp(UtteranceList[k].start)))
    => entries =
          [k \in 1..Len(UtteranceList) |->
              [timestamp |-> format_timestamp(UtteranceList[k].start),
               speaker   |-> Str("Speaker ")
                                 \o UtteranceList[k].speaker,
               text      |-> NormalizeText(UtteranceList[k].text)]]

\* The key file is there and holds nothing but whitespace.
KeyEmpty ==
    /\ key_file.exists
    /\ \A k \in 1..Len(key_file.data) : key_file.data[k] \in Whitespace

\* A failure found before the provider is called.
LocalFailure ==
    \/ ~audio_exists
    \/ ~key_file.exists
    \/ KeyEmpty
    \/ ~config_file.exists
    \/ ~config_file.json_ok

\* One of the failures the Writer reports: found before the provider is
\* called, or reported by the provider.
WriterFailure == LocalFailure \/ transcript.status = "error"

\* C8: on a missing audio file, a missing or empty key file, a missing or
\* invalid config file, or a provider error, the Writer ends with exit code
\* 1 before it opens its output file, so that in a run that fails in one of
\* these ways the transcript file is neither created nor overwritten; on
\* the first five the provider is never called.
C8_FailuresBeforeOutput ==
    /\ [](WriterFailure =>
             /\ wpc \notin {"open_output", "write", "done", "crash"}
             /\ ~f_open
             /\ txt_file \in {NoFile, StaleFile}
             /\ wpc = "exit" => writer_exit = Some(1)
             /\ wpc # "exit" => writer_exit = None)
    /\ [](LocalFailure => provider_calls = 0 /\ transcript = NoTranscript)
    /\ [][WriterFailure => txt_file' = txt_file]_vars

\* The provider has reported an error: the Writer has ended with exit code
\* 1 and the transcript of an earlier run is still there.
C8_Witness ==
    /\ wpc = "exit"
    /\ writer_exit = Some(1)
    /\ transcript.status = "error"
    /\ provider_calls = 1
    /\ txt_file = StaleFile

=============================================================================
